---- MODULE Spec2Model ----
(***************************************************************************)
(* Model of stock_inventory.py: a Flask API over one SQLite table          *)
(* products(id, category, name, price, quantity, date_added), reached      *)
(* through one module-wide connection and cursor.                          *)
(*                                                                         *)
(* Texts that the program parses (price, quantity, date_added) are         *)
(* sequences of one-character strings, so that float(), strptime() and     *)
(* SQLite's column affinity are computed character by character.  Texts    *)
(* that are only compared (category, name) are strings.  Numbers are exact *)
(* decimals m * 10^e; binary rounding of doubles is outside the model.     *)
(***************************************************************************)
EXTENDS Integers, Sequences, FiniteSets, TLC

(***************************************************************************)
(* Bounds of the model.                                                    *)
(***************************************************************************)
MaxRows == 2
MaxId == 3

(***************************************************************************)
(* Characters and whitespace.                                              *)
(***************************************************************************)
DigitChars == {"0", "1", "2", "3", "4", "5", "6", "7", "8", "9"}

IsDigit(c) == c \in DigitChars

DigitVal(c) ==
  CASE c = "0" -> 0 [] c = "1" -> 1 [] c = "2" -> 2 [] c = "3" -> 3
    [] c = "4" -> 4 [] c = "5" -> 5 [] c = "6" -> 6 [] c = "7" -> 7
    [] c = "8" -> 8 [] c = "9" -> 9

Lower(c) ==
  CASE c = "I" -> "i" [] c = "N" -> "n" [] c = "F" -> "f" [] c = "T" -> "t"
    [] c = "Y" -> "y" [] c = "A" -> "a" [] c = "E" -> "e" [] OTHER -> c

RECURSIVE LStrip(_)
LStrip(s) == IF s # <<>> /\ Head(s) = " " THEN LStrip(Tail(s)) ELSE s

RECURSIVE RStrip(_)
RStrip(s) ==
  IF s # <<>> /\ s[Len(s)] = " " THEN RStrip(SubSeq(s, 1, Len(s) - 1)) ELSE s

Strip(s) == RStrip(LStrip(s))

(***************************************************************************)
(* Decimal numbers.                                                        *)
(***************************************************************************)
RECURSIVE Pow10(_)
Pow10(n) == IF n <= 0 THEN 1 ELSE 10 * Pow10(n - 1)

RECURSIVE Normalise(_, _)
Normalise(m, e) ==
  IF m = 0 THEN [m |-> 0, e |-> 0]
  ELSE IF m % 10 = 0 THEN Normalise(m \div 10, e + 1)
  ELSE [m |-> m, e |-> e]

Fin(neg, m, e) ==
  LET n == Normalise(m, e) IN [kind |-> "fin", neg |-> neg, m |-> n.m, e |-> n.e]
Inf(neg) == [kind |-> "inf", neg |-> neg, m |-> 0, e |-> 0]
NaN == [kind |-> "nan", neg |-> FALSE, m |-> 0, e |-> 0]
NoNumber == [kind |-> "none", neg |-> FALSE, m |-> 0, e |-> 0]

\* a == b on two numbers, as Python and SQLite compare doubles
NumEq(a, b) ==
  CASE a.kind = "fin" /\ b.kind = "fin" ->
         a.m = b.m /\ a.e = b.e /\ (a.neg = b.neg \/ a.m = 0)
    [] a.kind = "inf" /\ b.kind = "inf" -> a.neg = b.neg
    [] OTHER -> FALSE

\* a >= 1
NumGE1(a) ==
  CASE a.kind = "inf" -> ~a.neg
    [] a.kind = "fin" ->
         /\ ~a.neg
         /\ IF a.e >= 0 THEN a.m >= 1 ELSE a.m >= Pow10(0 - a.e)
    [] OTHER -> FALSE

IsIntegral(a) == a.kind = "fin" /\ a.e >= 0

(***************************************************************************)
(* Scanner of a decimal literal: [sign] digits [. digits] [e [sign] digits]*)
(* Python's float() allows one underscore between two digits; SQLite's     *)
(* text-to-number conversion does not.                                     *)
(***************************************************************************)
RECURSIVE ScanDigits(_, _, _)
ScanDigits(s, i, underscores) ==
  IF i > Len(s) THEN i
  ELSE IF IsDigit(s[i]) THEN ScanDigits(s, i + 1, underscores)
  ELSE IF /\ underscores
          /\ s[i] = "_"
          /\ i > 1
          /\ i < Len(s)
          /\ IsDigit(s[i - 1])
          /\ IsDigit(s[i + 1])
       THEN ScanDigits(s, i + 1, underscores)
  ELSE i

\* value of the digits of s[i .. j-1], underscores skipped, appended to acc
RECURSIVE ValDigits(_, _, _, _)
ValDigits(s, i, j, acc) ==
  IF i >= j THEN acc
  ELSE IF IsDigit(s[i]) THEN ValDigits(s, i + 1, j, 10 * acc + DigitVal(s[i]))
  ELSE ValDigits(s, i + 1, j, acc)

RECURSIVE CountDigits(_, _, _)
CountDigits(s, i, j) ==
  IF i >= j THEN 0
  ELSE (IF IsDigit(s[i]) THEN 1 ELSE 0) + CountDigits(s, i + 1, j)

HasSign(s, i) == i <= Len(s) /\ s[i] \in {"+", "-"}
IsNeg(s, i) == i <= Len(s) /\ s[i] = "-"

ParseDecimal(s, underscores) ==
  LET i0 == IF HasSign(s, 1) THEN 2 ELSE 1
      intEnd == ScanDigits(s, i0, underscores)
      hasPoint == intEnd <= Len(s) /\ s[intEnd] = "."
      fracStart == intEnd + 1
      fracEnd == IF hasPoint THEN ScanDigits(s, fracStart, underscores) ELSE intEnd
      hasExp == fracEnd <= Len(s) /\ Lower(s[fracEnd]) = "e"
      expStart == IF HasSign(s, fracEnd + 1) THEN fracEnd + 2 ELSE fracEnd + 1
      expEnd == IF hasExp THEN ScanDigits(s, expStart, underscores) ELSE fracEnd
      mantOK == intEnd > i0 \/ (hasPoint /\ fracEnd > fracStart)
      expOK == ~hasExp \/ expEnd > expStart
      expVal == IF hasExp THEN ValDigits(s, expStart, expEnd, 0) ELSE 0
      exp == IF hasExp /\ IsNeg(s, fracEnd + 1) THEN 0 - expVal ELSE expVal
      nFrac == IF hasPoint THEN CountDigits(s, fracStart, fracEnd) ELSE 0
      mant == ValDigits(s, fracStart, fracEnd, ValDigits(s, i0, intEnd, 0))
  IN  IF mantOK /\ expOK /\ expEnd = Len(s) + 1
      THEN Fin(IsNeg(s, 1), mant, exp - nFrac)
      ELSE NoNumber

LowerSeq(s) == [i \in 1..Len(s) |-> Lower(s[i])]

\* Python's float(value): a number, or "none" where it raises ValueError
PyFloat(value) ==
  LET t == Strip(value)
      body == LowerSeq(IF HasSign(t, 1) THEN Tail(t) ELSE t)
  IN  IF body \in {<<"i", "n", "f">>, <<"i", "n", "f", "i", "n", "i", "t", "y">>}
      THEN Inf(IsNeg(t, 1))
      ELSE IF body = <<"n", "a", "n">> THEN NaN
      ELSE ParseDecimal(t, TRUE)

\* SQLite's conversion of a TEXT operand under NUMERIC/REAL/INTEGER affinity:
\* a number when the text is a well-formed literal, else "none" (stays TEXT)
SqliteNumeric(text) == ParseDecimal(Strip(text), FALSE)

(***************************************************************************)
(* datetime.strptime(value, '%Y-%m-%d').  The format compiles to the regex *)
(*   (\d\d\d\d)-(1[0-2]|0[1-9]|[1-9])-(3[01]|[12]\d|0[1-9]|[1-9]| [1-9])   *)
(* matched at the start of the text; text left over after the match and a  *)
(* date outside the calendar raise ValueError.                             *)
(***************************************************************************)
At(s, i) == IF i >= 1 /\ i <= Len(s) THEN s[i] ELSE ""

IsLeap(y) == (y % 4 = 0 /\ y % 100 # 0) \/ y % 400 = 0

DaysInMonth(y, m) ==
  IF m = 2 THEN (IF IsLeap(y) THEN 29 ELSE 28)
  ELSE IF m \in {4, 6, 9, 11} THEN 30 ELSE 31

\* index after the day matched at i by the first alternative that matches;
\* 0 when there is none
DayEnd(s, i) ==
  IF At(s, i) = "3" /\ At(s, i + 1) \in {"0", "1"} THEN i + 2
  ELSE IF At(s, i) \in {"1", "2"} /\ IsDigit(At(s, i + 1)) THEN i + 2
  ELSE IF At(s, i) = "0" /\ At(s, i + 1) \in DigitChars \ {"0"} THEN i + 2
  ELSE IF At(s, i) \in DigitChars \ {"0"} THEN i + 1
  ELSE IF At(s, i) = " " /\ At(s, i + 1) \in DigitChars \ {"0"} THEN i + 2
  ELSE 0

\* index after the month matched at i by the first alternative for which
\* the rest of the pattern can still match; 0 when there is none
MonthEnd(s, i) ==
  LET two == \/ At(s, i) = "1" /\ At(s, i + 1) \in {"0", "1", "2"}
             \/ At(s, i) = "0" /\ At(s, i + 1) \in DigitChars \ {"0"}
      one == At(s, i) \in DigitChars \ {"0"}
      rest(j) == At(s, j) = "-" /\ DayEnd(s, j + 1) # 0
  IN  IF two /\ rest(i + 2) THEN i + 2
      ELSE IF one /\ rest(i + 1) THEN i + 1
      ELSE 0

NoDate == [ok |-> FALSE, y |-> 0, m |-> 0, d |-> 0]

Strptime(value) ==
  LET yearOK == /\ \A i \in 1..4 : IsDigit(At(value, i))
                /\ At(value, 5) = "-"
      mEnd == MonthEnd(value, 6)
      dEnd == DayEnd(value, mEnd + 1)
      y == ValDigits(value, 1, 5, 0)
      m == ValDigits(value, 6, mEnd, 0)
      d == ValDigits(value, mEnd + 1, dEnd, 0)
  IN  IF /\ yearOK
         /\ mEnd # 0
         /\ dEnd = Len(value) + 1
         /\ y >= 1
         /\ d <= DaysInMonth(y, m)
      THEN [ok |-> TRUE, y |-> y, m |-> m, d |-> d]
      ELSE NoDate

validate_date(value) == Strptime(value).ok

validate_float(value) == PyFloat(value).kind # "none"

validate_positive_float(value) == validate_float(value) /\ NumGE1(PyFloat(value))

(***************************************************************************)
(* Calendar arithmetic and formatting of filter_by_date_added, and the     *)
(* byte-wise order in which SQLite compares TEXT values.                   *)
(***************************************************************************)
PrevDay(t) ==
  IF t.d > 1 THEN [t EXCEPT !.d = t.d - 1]
  ELSE IF t.m > 1 THEN [y |-> t.y, m |-> t.m - 1, d |-> DaysInMonth(t.y, t.m - 1)]
  ELSE [y |-> t.y - 1, m |-> 12, d |-> 31]

RECURSIVE DateMinus(_, _)
DateMinus(t, days) == IF days <= 0 THEN t ELSE DateMinus(PrevDay(t), days - 1)

DigitChar(n) ==
  CASE n = 0 -> "0" [] n = 1 -> "1" [] n = 2 -> "2" [] n = 3 -> "3"
    [] n = 4 -> "4" [] n = 5 -> "5" [] n = 6 -> "6" [] n = 7 -> "7"
    [] n = 8 -> "8" [] n = 9 -> "9"

Pad2(n) == <<DigitChar(n \div 10), DigitChar(n % 10)>>

Strftime(t) ==
  <<DigitChar(t.y \div 1000), DigitChar((t.y \div 100) % 10),
    DigitChar((t.y \div 10) % 10), DigitChar(t.y % 10)>>
  \o <<"-">> \o Pad2(t.m) \o <<"-">> \o Pad2(t.d)

Ord(c) ==
  CASE c = " " -> 32 [] c = "+" -> 43 [] c = "-" -> 45 [] c = "." -> 46
    [] IsDigit(c) -> 48 + DigitVal(c)
    [] c = "_" -> 95
    [] OTHER -> 97

RECURSIVE TextLess(_, _)
TextLess(a, b) ==
  IF b = <<>> THEN FALSE
  ELSE IF a = <<>> THEN TRUE
  ELSE IF Ord(Head(a)) # Ord(Head(b)) THEN Ord(Head(a)) < Ord(Head(b))
  ELSE TextLess(Tail(a), Tail(b))

(***************************************************************************)
(* Request inputs.  A form is a function from the submitted field names to *)
(* their texts; a field that was not submitted is outside its domain.      *)
(***************************************************************************)
Electronics == <<"E", "l", "e", "c", "t", "r", "o", "n", "i", "c", "s">>
electronics == <<"e", "l", "e", "c", "t", "r", "o", "n", "i", "c", "s">>
iPhone == <<"i", "P", "h", "o", "n", "e">>
P999_99 == <<"9", "9", "9", ".", "9", "9">>
PInf == <<"i", "n", "f">>
PHalf == <<"0", ".", "5">>
PAbc == <<"a", "b", "c">>
Q10 == <<"1", "0">>
Q10_0 == <<"1", "0", ".", "0">>
Q2_5 == <<"2", ".", "5">>
Q0 == <<"0">>
D2023_07_10 == <<"2", "0", "2", "3", "-", "0", "7", "-", "1", "0">>
D2023_7_10 == <<"2", "0", "2", "3", "-", "7", "-", "1", "0">>
D2023_13_01 == <<"2", "0", "2", "3", "-", "1", "3", "-", "0", "1">>
D07_10_2023 == <<"0", "7", "-", "1", "0", "-", "2", "0", "2", "3">>

Fields == {"category", "name", "price", "quantity", "date_added"}

BaseForm ==
  [category |-> Electronics, name |-> iPhone, price |-> P999_99,
   quantity |-> Q10, date_added |-> D2023_07_10]

Without(form, k) == [f \in DOMAIN form \ {k} |-> form[f]]

Forms ==
  {BaseForm}
  \cup {[BaseForm EXCEPT !.category = <<>>]}
  \cup {Without(BaseForm, "category"), Without(BaseForm, "name")}
  \cup {[BaseForm EXCEPT !.price = p] : p \in {PInf, PHalf, PAbc}}
  \cup {[BaseForm EXCEPT !.quantity = q] : q \in {Q10_0, Q2_5, Q0}}
  \cup {[BaseForm EXCEPT !.date_added = d] :
          d \in {D2023_7_10, D2023_13_01, D07_10_2023}}
  \cup {Without([BaseForm EXCEPT !.price = PAbc], "name"),
        [BaseForm EXCEPT !.price = PAbc, !.date_added = D2023_13_01],
        [BaseForm EXCEPT !.quantity = Q0, !.date_added = D07_10_2023]}

ProductIds == 0..MaxId
PathTexts == {Electronics, electronics, iPhone}
Days == {0, 2}
Todays == {[y |-> 2023, m |-> 7, d |-> 12], [y |-> 2023, m |-> 3, d |-> 1]}

(***************************************************************************)
(* State.                                                                  *)
(***************************************************************************)
VARIABLES
  products,      \* rows of table products, in rowid order
  sqlite_seq,    \* sqlite_sequence entry of products (AUTOINCREMENT)
  cursorRows,    \* rows the shared cursor has still to fetch
  rowcount,      \* cursor.rowcount of the shared cursor
  last,          \* the request handled last and its response
  submitted,     \* history: id of every row of the table -> the form it came from
  deletedIds,    \* history: id of every row a DELETE removed
  pc,            \* per worker thread: the statement it executes next
  treq,          \* per worker thread: the request it is handling
  tresp,         \* per worker thread: its last response
  removed        \* history, per thread: rows its own DELETE statement removed

vars == <<products, sqlite_seq, cursorRows, rowcount, last, submitted,
          deletedIds, pc, treq, tresp, removed>>

dbVars == <<products, sqlite_seq>>
cursorVars == <<cursorRows, rowcount>>
historyVars == <<submitted, deletedIds>>
threadVars == <<pc, treq, tresp, removed>>

Threads == {1, 2}

(***************************************************************************)
(* The table and its statements.                                           *)
(***************************************************************************)
Range(f) == {f[i] : i \in DOMAIN f}

SetMax(S) == IF S = {} THEN 0 ELSE CHOOSE x \in S : \A y \in S : y <= x

RowIds(rows) == {rows[i].id : i \in DOMAIN rows}

\* a Python float bound to a column of REAL affinity
RealCell(num) == [cls |-> "REAL", num |-> num]

\* a Python float bound to a column of INTEGER affinity: stored as an
\* integer when the conversion loses nothing
IntegerCell(num) ==
  [cls |-> IF IsIntegral(num) THEN "INTEGER" ELSE "REAL", num |-> num]

\* variant: the parameter converted as float() converts it
NumericColumnEqPython(cell, text) == NumEq(cell.num, PyFloat(text))

\* column = ? for a numeric column and a TEXT parameter: the column's
\* affinity is applied to the text; text that is no number equals no number
NumericColumnEq(cell, text) ==
  LET n == SqliteNumeric(text) IN n.kind # "none" /\ NumEq(cell.num, n)

\* variant: the WHERE clause without its quantity term
DuplicateWhereNoQuantity(row, category, name, price, quantity, date_added) ==
  /\ row.category = category
  /\ row.name = name
  /\ NumericColumnEq(row.price, price)
  /\ row.date_added = date_added

\* the WHERE clause of check_duplicate
DuplicateWhere(row, category, name, price, quantity, date_added) ==
  /\ row.category = category
  /\ row.name = name
  /\ NumericColumnEq(row.price, price)
  /\ NumericColumnEq(row.quantity, quantity)
  /\ row.date_added = date_added

SelectDuplicate(rows, category, name, price, quantity, date_added) ==
  LET where(row) == DuplicateWhere(row, category, name, price, quantity, date_added)
  IN  SelectSeq(rows, where)

\* variant: the rowid of a table declared without AUTOINCREMENT
NextIdMaxRowid(rows, seq) == SetMax(RowIds(rows)) + 1

\* rowid of an INSERT into a table with INTEGER PRIMARY KEY AUTOINCREMENT
NextId(rows, seq) ==
  LET top == SetMax(RowIds(rows)) IN (IF seq > top THEN seq ELSE top) + 1

\* variant: category and name bound to each other's column
NewRowSwapped(id, category, name, price, quantity, date_added) ==
  [id |-> id, category |-> name, name |-> category,
   price |-> RealCell(price), quantity |-> IntegerCell(quantity),
   date_added |-> date_added]

NewRow(id, category, name, price, quantity, date_added) ==
  [id |-> id, category |-> category, name |-> name,
   price |-> RealCell(price), quantity |-> IntegerCell(quantity),
   date_added |-> date_added]

\* variant: WHERE id<=?
DeleteWhereUpTo(row, product_id) == row.id <= product_id

DeleteWhere(row, product_id) == row.id = product_id

\* rows left by DELETE FROM products WHERE id=?
DeleteRows(rows, product_id) ==
  LET keep(row) == ~DeleteWhere(row, product_id) IN SelectSeq(rows, keep)

SelectCategory(rows, category) ==
  LET where(row) == row.category = category IN SelectSeq(rows, where)

SelectName(rows, product_name) ==
  LET where(row) == row.name = product_name IN SelectSeq(rows, where)

SelectDateBefore(rows, limit) ==
  LET where(row) == TextLess(row.date_added, limit) IN SelectSeq(rows, where)

SelectAll(rows) == rows

\* the text of date_limit in filter_by_date_added
DateLimit(today, days) == Strftime(DateMinus(today, days))

\* "not value" of a form field: None when absent, or the empty text
Missing(form, k) == k \notin DOMAIN form \/ form[k] = <<>>

(***************************************************************************)
(* Responses.                                                              *)
(***************************************************************************)
NoForm == [none |-> <<>>]

Request(op, form, id, text, days) ==
  [op |-> op, form |-> form, id |-> id, text |-> text, days |-> days]

Response(status, msg, rows) == [status |-> status, msg |-> msg, rows |-> rows]

Handled(req, rsp) ==
  [op |-> req.op, form |-> req.form, id |-> req.id, text |-> req.text,
   days |-> req.days, status |-> rsp.status, msg |-> rsp.msg, rows |-> rsp.rows]

NoRequest == Request("none", NoForm, 0, <<>>, 0)
NoResponse == Response(0, "", <<>>)

MissingFields == Response(400, "Missing required fields.", <<>>)
InvalidNumber == Response(400, "Invalid price or quantity.", <<>>)
InvalidDate == Response(400, "Invalid date format. Please use yyyy-MM-dd", <<>>)
AlreadyExists == Response(409, "Product already exists.", <<>>)
Added == Response(200, "Product added to the inventory.", <<>>)
NotConverted == Response(200, "Invalid price or quantity.", <<>>)
Deleted == Response(200, "Product deleted successfully.", <<>>)
NotFound == Response(404, "Product not found.", <<>>)
ServerError == Response(500, "Internal Server Error", <<>>)
ProductList(rows) == Response(200, "products", rows)

\* the checks of ProductResource.post that precede the duplicate check:
\* the 400 response of the first one that fails, else NoResponse
Validate(form) ==
  IF \E k \in Fields : Missing(form, k) THEN MissingFields
  ELSE IF \/ ~validate_positive_float(form.price)
          \/ ~validate_positive_float(form.quantity) THEN InvalidNumber
  ELSE IF ~validate_date(form.date_added) THEN InvalidDate
  ELSE NoResponse

Init ==
  /\ products = <<>>
  /\ sqlite_seq = 0
  /\ cursorRows = <<>>
  /\ rowcount = -1
  /\ last = Handled(NoRequest, NoResponse)
  /\ submitted = <<>>
  /\ deletedIds = {}
  /\ pc = [t \in Threads |-> "idle"]
  /\ treq = [t \in Threads |-> NoRequest]
  /\ tresp = [t \in Threads |-> Handled(NoRequest, NoResponse)]
  /\ removed = [t \in Threads |-> 0]

(***************************************************************************)
(* Requests handled one at a time: each action is one whole handler.       *)
(***************************************************************************)
Record(id, form) ==
  [i \in DOMAIN submitted \cup {id} |-> IF i = id THEN form ELSE submitted[i]]

\* POST /product
Post(form) ==
  LET req == Request("POST", form, 0, <<>>, 0)
      invalid == Validate(form)
      found == SelectDuplicate(products, form.category, form.name, form.price,
                               form.quantity, form.date_added)
      price == PyFloat(form.price)
      quantity == PyFloat(form.quantity)
      id == NextId(products, sqlite_seq)
  IN  /\ UNCHANGED <<deletedIds, threadVars>>
      /\ IF invalid # NoResponse
         THEN /\ last' = Handled(req, invalid)
              /\ UNCHANGED <<dbVars, cursorVars, submitted>>
         ELSE IF found # <<>>
         THEN /\ cursorRows' = Tail(found)
              /\ rowcount' = -1
              /\ last' = Handled(req, AlreadyExists)
              /\ UNCHANGED <<dbVars, submitted>>
         ELSE IF price.kind = "none" \/ quantity.kind = "none"
         THEN /\ cursorRows' = <<>>
              /\ rowcount' = -1
              /\ last' = Handled(req, NotConverted)
              /\ UNCHANGED <<dbVars, submitted>>
         ELSE /\ Len(products) < MaxRows
              /\ sqlite_seq < MaxId
              /\ products' = Append(products,
                   NewRow(id, form.category, form.name, price, quantity,
                          form.date_added))
              /\ sqlite_seq' = id
              /\ cursorRows' = <<>>
              /\ rowcount' = 1
              /\ submitted' = Record(id, form)
              /\ last' = Handled(req, Added)

\* DELETE /product/<int:product_id>
Delete(product_id) ==
  LET req == Request("DELETE", NoForm, product_id, <<>>, 0)
      left == DeleteRows(products, product_id)
      count == Len(products) - Len(left)
  IN  /\ products' = left
      /\ cursorRows' = <<>>
      /\ rowcount' = count
      /\ deletedIds' = deletedIds \cup (RowIds(products) \ RowIds(left))
      /\ submitted' = [i \in DOMAIN submitted \cap RowIds(left) |-> submitted[i]]
      /\ last' = Handled(req, IF count > 0 THEN Deleted ELSE NotFound)
      /\ UNCHANGED <<sqlite_seq, threadVars>>

\* the name under which the route of CategoryResource passes the path text,
\* and the name of the parameter CategoryResource.get takes it by
CategoryRouteArg == "ategory"
CategoryViewArg == "category"

\* GET /category/<string:ategory>: the view is called with the route's
\* keyword; a keyword the method does not take raises TypeError
GetCategory(category) ==
  LET req == Request("GET_category", NoForm, 0, category, 0)
  IN  /\ IF CategoryRouteArg = CategoryViewArg
         THEN /\ cursorRows' = <<>>
              /\ rowcount' = -1
              /\ last' = Handled(req, ProductList(SelectCategory(products, category)))
         ELSE /\ last' = Handled(req, ServerError)
              /\ UNCHANGED cursorVars
      /\ UNCHANGED <<dbVars, historyVars, threadVars>>

\* GET /product_name/<string:product_name>
GetProductName(product_name) ==
  LET req == Request("GET_product_name", NoForm, 0, product_name, 0)
  IN  /\ cursorRows' = <<>>
      /\ rowcount' = -1
      /\ last' = Handled(req, ProductList(SelectName(products, product_name)))
      /\ UNCHANGED <<dbVars, historyVars, threadVars>>

\* GET /date_added/<int:days>, handled on the day today
GetDateAdded(days, today) ==
  LET req == Request("GET_date_added", NoForm, 0, Strftime(today), days)
  IN  /\ cursorRows' = <<>>
      /\ rowcount' = -1
      /\ last' = Handled(req,
           ProductList(SelectDateBefore(products, DateLimit(today, days))))
      /\ UNCHANGED <<dbVars, historyVars, threadVars>>

\* GET /inventory
GetInventory ==
  LET req == Request("GET_inventory", NoForm, 0, <<>>, 0)
  IN  /\ cursorRows' = <<>>
      /\ rowcount' = -1
      /\ last' = Handled(req, ProductList(SelectAll(products)))
      /\ UNCHANGED <<dbVars, historyVars, threadVars>>

Next ==
  \/ \E form \in Forms : Post(form)
  \/ \E product_id \in ProductIds : Delete(product_id)
  \/ \E category \in PathTexts : GetCategory(category)
  \/ \E product_name \in PathTexts : GetProductName(product_name)
  \/ \E days \in Days, today \in Todays : GetDateAdded(days, today)
  \/ GetInventory

Spec == Init /\ [][Next]_vars

(***************************************************************************)
(* Requests handled concurrently by the threads of the development server. *)
(* Every thread uses the module-wide conn and cursor; a step is one call   *)
(* on them (execute, fetchone, fetchall, commit, the read of rowcount).    *)
(***************************************************************************)
ConcurrentForms == {BaseForm, [BaseForm EXCEPT !.price = PAbc]}

InPost == {"check_execute", "check_fetch", "insert_execute", "insert_commit"}

\* number of threads between the start of a POST and its INSERT
Inserting == Cardinality({t \in Threads : pc[t] \in InPost \ {"insert_commit"}})

Goto(t, label) == pc' = [pc EXCEPT ![t] = label]

Reply(t, rsp) ==
  /\ tresp' = [tresp EXCEPT ![t] = Handled(treq[t], rsp)]
  /\ Goto(t, "idle")

\* ProductResource.post up to the duplicate check
PostBegin(t, form) ==
  LET req == Request("POST", form, 0, <<>>, 0)
      invalid == Validate(form)
  IN  /\ pc[t] = "idle"
      /\ Len(products) + Inserting < MaxRows
      /\ sqlite_seq + Inserting < MaxId
      /\ treq' = [treq EXCEPT ![t] = req]
      /\ IF invalid # NoResponse
         THEN /\ tresp' = [tresp EXCEPT ![t] = Handled(req, invalid)]
              /\ UNCHANGED pc
         ELSE /\ Goto(t, "check_execute")
              /\ UNCHANGED tresp
      /\ UNCHANGED <<dbVars, cursorVars, last, historyVars, removed>>

\* check_duplicate: cursor.execute(query, ...)
CheckExecute(t) ==
  LET form == treq[t].form
  IN  /\ pc[t] = "check_execute"
      /\ cursorRows' = SelectDuplicate(products, form.category, form.name,
                         form.price, form.quantity, form.date_added)
      /\ rowcount' = -1
      /\ Goto(t, "check_fetch")
      /\ UNCHANGED <<dbVars, last, historyVars, treq, tresp, removed>>

\* check_duplicate: cursor.fetchone() is not None, and the 409 of post
CheckFetch(t) ==
  /\ pc[t] = "check_fetch"
  /\ IF cursorRows # <<>>
     THEN /\ cursorRows' = Tail(cursorRows)
          /\ Reply(t, AlreadyExists)
     ELSE /\ Goto(t, "insert_execute")
          /\ UNCHANGED <<cursorRows, tresp>>
  /\ UNCHANGED <<dbVars, rowcount, last, historyVars, treq, removed>>

\* add_product: the conversions and cursor.execute(INSERT ...)
InsertExecute(t) ==
  LET form == treq[t].form
      price == PyFloat(form.price)
      quantity == PyFloat(form.quantity)
      id == NextId(products, sqlite_seq)
  IN  /\ pc[t] = "insert_execute"
      /\ IF price.kind = "none" \/ quantity.kind = "none"
         THEN /\ Reply(t, NotConverted)
              /\ UNCHANGED <<dbVars, cursorVars>>
         ELSE /\ products' = Append(products,
                   NewRow(id, form.category, form.name, price, quantity,
                          form.date_added))
              /\ sqlite_seq' = id
              /\ cursorRows' = <<>>
              /\ rowcount' = 1
              /\ Goto(t, "insert_commit")
              /\ UNCHANGED tresp
      /\ UNCHANGED <<last, historyVars, treq, removed>>

\* add_product: conn.commit() and the return
InsertCommit(t) ==
  /\ pc[t] = "insert_commit"
  /\ Reply(t, Added)
  /\ UNCHANGED <<dbVars, cursorVars, last, historyVars, treq, removed>>

\* DeleteProductResource.delete: cursor.execute(DELETE ...)
DeleteExecute(t, product_id) ==
  LET left == DeleteRows(products, product_id)
  IN  /\ pc[t] = "idle"
      /\ treq' = [treq EXCEPT ![t] = Request("DELETE", NoForm, product_id, <<>>, 0)]
      /\ products' = left
      /\ cursorRows' = <<>>
      /\ rowcount' = Len(products) - Len(left)
      /\ removed' = [removed EXCEPT ![t] = Len(products) - Len(left)]
      /\ Goto(t, "delete_commit")
      /\ UNCHANGED <<sqlite_seq, last, historyVars, tresp>>

\* DeleteProductResource.delete: conn.commit()
DeleteCommit(t) ==
  /\ pc[t] = "delete_commit"
  /\ Goto(t, "delete_rowcount")
  /\ UNCHANGED <<dbVars, cursorVars, last, historyVars, treq, tresp, removed>>

\* DeleteProductResource.delete: if cursor.rowcount > 0
DeleteRowcount(t) ==
  /\ pc[t] = "delete_rowcount"
  /\ Reply(t, IF rowcount > 0 THEN Deleted ELSE NotFound)
  /\ UNCHANGED <<dbVars, cursorVars, last, historyVars, treq, removed>>

\* display_inventory: cursor.execute("SELECT * FROM products")
InventoryExecute(t) ==
  /\ pc[t] = "idle"
  /\ treq' = [treq EXCEPT ![t] = Request("GET_inventory", NoForm, 0, <<>>, 0)]
  /\ cursorRows' = SelectAll(products)
  /\ rowcount' = -1
  /\ Goto(t, "inventory_fetch")
  /\ UNCHANGED <<dbVars, last, historyVars, tresp, removed>>

\* display_inventory: cursor.fetchall() and the return
InventoryFetch(t) ==
  /\ pc[t] = "inventory_fetch"
  /\ cursorRows' = <<>>
  /\ Reply(t, ProductList(cursorRows))
  /\ UNCHANGED <<dbVars, rowcount, last, historyVars, treq, removed>>

NextConcurrent ==
  \E t \in Threads :
    \/ \E form \in ConcurrentForms : PostBegin(t, form)
    \/ CheckExecute(t)
    \/ CheckFetch(t)
    \/ InsertExecute(t)
    \/ InsertCommit(t)
    \/ \E product_id \in ProductIds : DeleteExecute(t, product_id)
    \/ DeleteCommit(t)
    \/ DeleteRowcount(t)
    \/ InventoryExecute(t)
    \/ InventoryFetch(t)

SpecConcurrent == Init /\ [][NextConcurrent]_vars

(***************************************************************************)
(* Vocabulary of the claims.                                               *)
(***************************************************************************)
Tuple(row) ==
  <<row.category, row.name, row.price.num, row.quantity.num, row.date_added>>

\* a date written YYYY-MM-DD: four, two and two digits, in the calendar
IsIsoDate(s) ==
  /\ Len(s) = 10
  /\ \A i \in {1, 2, 3, 4, 6, 7, 9, 10} : IsDigit(s[i])
  /\ s[5] = "-"
  /\ s[8] = "-"
  /\ LET y == 1000 * DigitVal(s[1]) + 100 * DigitVal(s[2])
              + 10 * DigitVal(s[3]) + DigitVal(s[4])
         m == 10 * DigitVal(s[6]) + DigitVal(s[7])
         d == 10 * DigitVal(s[9]) + DigitVal(s[10])
     IN  y >= 1 /\ m \in 1..12 /\ d >= 1 /\ d <= DaysInMonth(y, m)

AllPresent(form) == \A k \in Fields : k \in DOMAIN form /\ form[k] # <<>>

NumberAtLeast1(text) == PyFloat(text).kind \in {"fin", "inf"} /\ NumGE1(PyFloat(text))

NumbersOK(form) == NumberAtLeast1(form.price) /\ NumberAtLeast1(form.quantity)

\* the row carries the field values of the form
Carries(row, form) ==
  /\ row.category = form.category
  /\ row.name = form.name
  /\ NumEq(row.price.num, PyFloat(form.price))
  /\ NumEq(row.quantity.num, PyFloat(form.quantity))
  /\ row.date_added = form.date_added

LiveIds == RowIds(products)

PostStep == last'.op = "POST"

(***************************************************************************)
(* C1: in every state reached by POST and DELETE requests handled one at a *)
(* time, no two rows of products have the same (category, name, price,     *)
(* quantity, date_added).  Refuted: a price text such as "inf", which      *)
(* float() accepts and SQLite does not convert, is inserted twice.         *)
(***************************************************************************)
C1_NoDuplicateTuples ==
  \A i, j \in DOMAIN products :
    i # j => Tuple(products[i]) # Tuple(products[j])

(***************************************************************************)
(* C2: while the row inserted by an accepted POST is in the table, every   *)
(* later POST with the same five field texts returns 409 and inserts no    *)
(* row.  Refuted by the same inputs as C1.                                 *)
(***************************************************************************)
C2_ResubmissionRejected ==
  [][(/\ PostStep
      /\ \E id \in LiveIds : submitted[id] = last'.form)
     => (last'.status = 409 /\ products' = products)]_vars

(***************************************************************************)
(* C3: a POST whose five fields are present and non-empty, whose price and *)
(* quantity parse as numbers >= 1, whose date is a valid YYYY-MM-DD date   *)
(* and whose tuple matches no existing row answers 200, and                *)
(* display-inventory afterwards is the previous inventory plus exactly one *)
(* new row carrying those values.                                          *)
(***************************************************************************)
C3_AddThenDisplay ==
  [][(/\ PostStep
      /\ AllPresent(last'.form)
      /\ NumbersOK(last'.form)
      /\ IsIsoDate(last'.form.date_added)
      /\ \A i \in DOMAIN products : ~Carries(products[i], last'.form))
     => (/\ last'.status = 200
         /\ \E row \in Range(products') :
              /\ Carries(row, last'.form)
              /\ row.id \notin LiveIds
              /\ ProductList(SelectAll(products')).rows
                   = Append(ProductList(SelectAll(products)).rows, row))]_vars

C3_Witness ==
  /\ last.op = "POST"
  /\ last.status = 200
  /\ Len(products) = 2
  /\ IsIsoDate(last.form.date_added)
  /\ Carries(products[2], last.form)
  /\ ~Carries(products[1], last.form)

(***************************************************************************)
(* C4: a POST with a field absent or empty, or a price or quantity that is *)
(* no number or below 1, or a date_added that is no valid YYYY-MM-DD date, *)
(* answers 400 with the message of the first failing check and leaves the  *)
(* table as it was.  Refuted: strptime accepts "2023-7-10".                *)
(***************************************************************************)
C4_InvalidRejected ==
  [][(/\ PostStep
      /\ \/ ~AllPresent(last'.form)
         \/ ~NumbersOK(last'.form)
         \/ ~IsIsoDate(last'.form.date_added))
     => (/\ last'.status = 400
         /\ products' = products
         /\ last'.msg = IF ~AllPresent(last'.form) THEN MissingFields.msg
                        ELSE IF ~NumbersOK(last'.form) THEN InvalidNumber.msg
                        ELSE InvalidDate.msg)]_vars

(***************************************************************************)
(* C5: a DELETE handled on its own answers 200 exactly when a row with the *)
(* id exists, and then removes that row and no other; otherwise it answers *)
(* 404 and leaves the table unchanged.  No row of the table and no row a   *)
(* later display or filter request returns has the id of a deleted row.    *)
(***************************************************************************)
C5_DeleteExactlyOne ==
  [][/\ last'.op = "DELETE" =>
          LET hit == {i \in DOMAIN products : products[i].id = last'.id}
              keep(row) == row.id # last'.id
          IN  /\ (last'.status = 200) = (hit # {})
              /\ (last'.status = 404) = (hit = {})
              /\ hit # {} => Cardinality(hit) = 1 /\ Len(products') = Len(products) - 1
              /\ products' = SelectSeq(products, keep)
              /\ hit # {} => last'.id \in deletedIds'
     /\ \A row \in Range(products') \cup Range(last'.rows) :
          row.id \notin deletedIds']_vars

C5_Witness ==
  /\ last.op \in {"GET_inventory", "GET_product_name", "GET_date_added"}
  /\ last.rows # <<>>
  /\ deletedIds # {}
  /\ \E id \in deletedIds : id < SetMax(LiveIds)

(***************************************************************************)
(* C6: the id of a newly inserted row differs from the id of every row     *)
(* inserted before, deleted rows included.                                 *)
(***************************************************************************)
C6_IdNeverReused ==
  [][\A row \in Range(products') \ Range(products) :
       row.id \notin LiveIds \cup deletedIds]_vars

\* the only row was inserted after row 1, then the highest, was deleted
C6_Witness ==
  /\ last.op = "POST"
  /\ last.status = 200
  /\ Len(products) = 1
  /\ deletedIds = {1}
  /\ products[1].id = 2

(***************************************************************************)
(* C7: GET /category/{category}, as routed, answers 200 with exactly the   *)
(* rows whose category equals the path text.  Refuted: the route passes    *)
(* the text as keyword "ategory", which CategoryResource.get does not      *)
(* take, and the request ends in a server error.                           *)
(***************************************************************************)
C7_CategoryFilter ==
  last.op = "GET_category" =>
    LET where(row) == row.category = last.text
    IN  last.status = 200 /\ last.rows = SelectSeq(products, where)

(***************************************************************************)
(* C8, as stated: a valid submission whose price or quantity text differs  *)
(* from that of an existing row, the other fields being identical, and     *)
(* that repeats the texts of no row, is not a duplicate and is inserted.   *)
(***************************************************************************)
DiffersInNumberText(f, g) ==
  /\ f # g
  /\ f.category = g.category
  /\ f.name = g.name
  /\ f.date_added = g.date_added

C8_RawComparison ==
  [][(/\ PostStep
      /\ Validate(last'.form) = NoResponse
      /\ \E id \in LiveIds : DiffersInNumberText(submitted[id], last'.form)
      /\ \A id \in LiveIds : submitted[id] # last'.form)
     => (last'.status = 200 /\ Len(products') = Len(products) + 1)]_vars

(***************************************************************************)
(* C8, amended: the duplicate check compares price and quantity as SQLite  *)
(* converts the submitted texts to numbers.  A submission that passes      *)
(* validation answers 409 and inserts nothing exactly when some row has    *)
(* its category, name and date_added and a price and quantity equal to the *)
(* numbers SQLite reads from the submitted texts, whatever texts that row  *)
(* was submitted with; otherwise it is inserted.                           *)
(***************************************************************************)
C8_AffinityComparison ==
  [][(PostStep /\ Validate(last'.form) = NoResponse) =>
       LET f == last'.form
           same(row) ==
             /\ row.category = f.category
             /\ row.name = f.name
             /\ row.date_added = f.date_added
             /\ SqliteNumeric(f.price).kind = "fin"
             /\ SqliteNumeric(f.quantity).kind = "fin"
             /\ NumEq(row.price.num, SqliteNumeric(f.price))
             /\ NumEq(row.quantity.num, SqliteNumeric(f.quantity))
       IN  IF \E row \in Range(products) : same(row)
           THEN last'.status = 409 /\ products' = products
           ELSE last'.status = 200 /\ Len(products') = Len(products) + 1]_vars

\* quantity "10" and "10.0" against each other: reported as a duplicate
C8_Witness ==
  /\ last.op = "POST"
  /\ last.status = 409
  /\ \E id \in LiveIds :
       /\ DiffersInNumberText(submitted[id], last.form)
       /\ submitted[id].quantity # last.form.quantity
  /\ \A id \in LiveIds : submitted[id] # last.form

(***************************************************************************)
(* C9: two concurrent POSTs of the same valid form can both pass the       *)
(* duplicate check before either inserts, and then both insert: a thread   *)
(* that is past the check appends its row whatever the table holds by      *)
(* then, and the state with two rows of the same tuple is reached while    *)
(* both threads are between their INSERT and its commit.                   *)
(***************************************************************************)
C9_InsertsAfterCheck ==
  [][\A t \in Threads :
       (pc[t] = "insert_execute" /\ pc'[t] # pc[t]) =>
         /\ Len(products') = Len(products) + 1
         /\ SubSeq(products', 1, Len(products)) = products
         /\ Carries(products'[Len(products')], treq[t].form)]_vars

C9_Witness ==
  /\ \A t \in Threads : pc[t] = "insert_commit"
  /\ treq[1].form = treq[2].form
  /\ Len(products) = 2
  /\ products[1].id # products[2].id
  /\ Tuple(products[1]) = Tuple(products[2])

(***************************************************************************)
(* C10: under concurrent handling a DELETE answers 200 only if its own     *)
(* statement removed a row and 404 only if it removed none.  Refuted:      *)
(* rowcount is read from the shared cursor after another thread's          *)
(* statement has overwritten it.                                           *)
(***************************************************************************)
C10_DeleteReportsOwnStatement ==
  \A t \in Threads :
    (pc[t] = "idle" /\ tresp[t].op = "DELETE") =>
      /\ (tresp[t].status = 200) = (removed[t] > 0)
      /\ (tresp[t].status = 404) = (removed[t] = 0)

====
